---- MODULE Spec2Model ----
(***************************************************************************)
(* Model of the inode layer of filesys/inode.c (the EFILESYS build: files  *)
(* are chains of clusters in a FAT).                                       *)
(*                                                                         *)
(* The state is the in-memory FAT, the device sectors, the heap of         *)
(* `struct inode' objects, the open_inodes list, and the outcome of the    *)
(* last call.  Every public function of inode.c is one action.             *)
(***************************************************************************)
EXTENDS Integers, Sequences, FiniteSets

(***************************************************************************)
(* Bounds of the model.                                                    *)
(***************************************************************************)
\* Bytes in a device sector (512 on the real device, scaled down).
DISK_SECTOR_SIZE == 2
\* Number of clusters the FAT manages.
NClusters == 4
\* fat_fs->data_start: the sector just before the sector of cluster 1.
DataStart == 1
\* Number of files the caller (the directory layer) creates.
MaxFiles == 2
\* Number of `struct inode' objects the heap can hold.
MaxInodes == 2
\* Cap on open_cnt of one inode.
MaxOpen == 2
\* Largest initial length passed to inode_create.
MaxCreateLen == 2
\* Largest offset and size passed to inode_read_at / inode_write_at.
MaxOffset == 4
MaxSize == 2

(***************************************************************************)
(* Program constants.                                                      *)
(***************************************************************************)
INODE_MAGIC == 1229868868
SECTORS_PER_CLUSTER == 1
EOChain == 268435455

\* byte_to_sector's "no data at this offset" result ((disk_sector_t) -1).
NoSector == -1
\* An access outside the FAT array that faulted.
Fault == -2

Cluster == 1..NClusters
Sector == 0..(DataStart + NClusters)
InodeId == 1..MaxInodes
\* What a read outside the FAT array may produce.
Wild == {Fault, 0, EOChain} \cup Cluster

cluster_to_sector(clst) == DataStart + clst
sector_to_cluster(sec) == sec - DataStart

Min(a, b) == IF a < b THEN a ELSE b
SetMin(S) == CHOOSE x \in S : \A y \in S : x <= y

zeros == [i \in 1..DISK_SECTOR_SIZE |-> 0]
\* A device sector holds either data bytes or an on-disk inode.
DataSector(bytes) == [k |-> "data", b |-> bytes]
InodeSector(d) == [k |-> "inode", d |-> d]
\* The bytes a sector presents to a reader of data: an on-disk inode read as
\* data is not zero bytes (its magic), shown as 255.
SectorBytes(c) == IF c.k = "data" THEN c.b ELSE [i \in 1..DISK_SECTOR_SIZE |-> 255]

\* struct inode_disk
inode_disk(start, length) == [start |-> start, length |-> length, magic |-> INODE_MAGIC]
\* A heap slot holding no inode.
NoInode ==
  [sector |-> NoSector, open_cnt |-> 0, removed |-> FALSE, deny_write_cnt |-> 0,
   data |-> inode_disk(0, 0)]

VARIABLES
  fat,          \* the in-memory FAT: next cluster, EOChain, or 0 (free)
  disk,         \* the device: sector -> contents
  inodes,       \* heap of struct inode, by address
  open_inodes,  \* the list of open inodes (addresses, front first)
  reserved,     \* sectors the caller allocated for an inode not yet created
  files,        \* sectors holding a created, not yet released inode
  panic,        \* the kernel panicked (failed ASSERT or fault)
  last          \* the last call: its arguments, result and events

vars == <<fat, disk, inodes, open_inodes, reserved, files, panic, last>>

Call(op, h, off, size, ret, buf, ev) ==
  [op |-> op, h |-> h, off |-> off, size |-> size, ret |-> ret, buf |-> buf, ev |-> ev]

Init ==
  /\ fat = [c \in Cluster |-> 0]
  /\ disk = [s \in Sector |-> DataSector(zeros)]
  /\ inodes = [i \in InodeId |-> NoInode]
  /\ open_inodes = <<>>
  /\ reserved = {}
  /\ files = {}
  /\ panic = FALSE
  /\ last = Call("init", 0, 0, 0, 0, <<>>, <<>>)

(***************************************************************************)
(* The chain allocator (filesys/fat.c), as inode.c uses it.                *)
(***************************************************************************)
\* fat_get: the entry of clst; entry 0 is reserved and holds 0; an index
\* outside the table reads whatever lies there (w) or faults.
fat_get(f, clst, w) ==
  IF clst \in Cluster THEN f[clst]
  ELSE IF clst = 0 THEN 0
  ELSE w

\* fat_create_chain: take the lowest free cluster, mark it the end of a
\* chain and, if clst is not 0, link it after clst.  0 when none is free.
fat_create_chain(f, clst, w) ==
  LET free == {c \in Cluster : f[c] = 0} IN
  IF clst = Fault THEN [fat |-> f, new |-> 0, fault |-> TRUE]
  ELSE IF free = {} THEN [fat |-> f, new |-> 0, fault |-> FALSE]
  ELSE LET new == SetMin(free)
           f1 == [f EXCEPT ![new] = EOChain]
       IN IF clst = 0 THEN [fat |-> f1, new |-> new, fault |-> FALSE]
          ELSE IF clst \in Cluster
            THEN [fat |-> [f1 EXCEPT ![clst] = new], new |-> new, fault |-> FALSE]
          ELSE \* fat_put outside the table: faults, or lands outside the FAT
            [fat |-> f1, new |-> new, fault |-> (w = Fault)]

\* fat_remove_chain(clst, 0): free every cluster from clst to the end of
\* its chain.
RECURSIVE fat_remove_chain(_, _, _)
fat_remove_chain(f, clst, fuel) ==
  IF fuel = 0 \/ clst \notin Cluster \/ f[clst] = 0 THEN f
  ELSE fat_remove_chain([f EXCEPT ![clst] = 0], f[clst], fuel - 1)

\* The clusters of the chain that starts at clst, in order.
RECURSIVE Chain(_, _, _)
Chain(f, clst, fuel) ==
  IF fuel = 0 \/ clst \notin Cluster \/ f[clst] = 0 THEN <<>>
  ELSE <<clst>> \o Chain(f, f[clst], fuel - 1)

(***************************************************************************)
(* byte_to_sector                                                          *)
(***************************************************************************)
\* The for loop of byte_to_sector: n times fat_get from clst.
RECURSIVE Walk(_, _, _, _)
Walk(f, clst, n, w) ==
  IF clst = Fault THEN Fault
  ELSE IF n = 0 THEN clst
  ELSE Walk(f, fat_get(f, clst, w), n - 1, w)

\* byte_to_sector without the walk along the chain: every offset is looked
\* up in the first cluster of the file.
byte_to_sector_first(d, pos, f, w) ==
  IF pos > d.length THEN NoSector
  ELSE cluster_to_sector(sector_to_cluster(d.start))

\* byte_to_sector with the bound of the build without EFILESYS: no sector
\* for pos >= length.
byte_to_sector_strict(d, pos, f, w) ==
  IF pos >= d.length THEN NoSector
  ELSE LET nth_cluster == (pos \div DISK_SECTOR_SIZE) \div SECTORS_PER_CLUSTER
           clst == Walk(f, sector_to_cluster(d.start), nth_cluster, w)
           clst_ofs == pos - nth_cluster * SECTORS_PER_CLUSTER * DISK_SECTOR_SIZE
       IN IF clst = Fault THEN Fault
          ELSE cluster_to_sector(clst) + clst_ofs \div DISK_SECTOR_SIZE

byte_to_sector(d, pos, f, w) ==
  IF pos > d.length THEN NoSector
  ELSE LET nth_cluster == (pos \div DISK_SECTOR_SIZE) \div SECTORS_PER_CLUSTER
           clst == Walk(f, sector_to_cluster(d.start), nth_cluster, w)
           clst_ofs == pos - nth_cluster * SECTORS_PER_CLUSTER * DISK_SECTOR_SIZE
       IN IF clst = Fault THEN Fault
          ELSE cluster_to_sector(clst) + clst_ofs \div DISK_SECTOR_SIZE

(***************************************************************************)
(* file_growth                                                             *)
(***************************************************************************)
\* The while loop of file_growth, from the given growth and last cluster.
RECURSIVE GrowLoop(_, _, _, _, _, _, _)
GrowLoop(origin_length, new_length, growth, last_clst, f, dk, w) ==
  IF growth < new_length - origin_length
  THEN LET r == fat_create_chain(f, last_clst, w) IN
       IF r.fault
       THEN [ok |-> FALSE, length |-> new_length, fat |-> r.fat, disk |-> dk, fault |-> TRUE]
       ELSE IF r.new = 0
       THEN [ok |-> FALSE,
             length |-> IF origin_length % DISK_SECTOR_SIZE = 0
                        THEN origin_length + growth
                        ELSE origin_length + growth - (growth % DISK_SECTOR_SIZE)
                               + DISK_SECTOR_SIZE,
             fat |-> r.fat, disk |-> dk, fault |-> FALSE]
       ELSE GrowLoop(origin_length, new_length, growth + DISK_SECTOR_SIZE, r.new, r.fat,
                     [dk EXCEPT ![cluster_to_sector(r.new)] = DataSector(zeros)], w)
  ELSE [ok |-> TRUE, length |-> new_length, fat |-> f, disk |-> dk, fault |-> FALSE]

\* file_growth whose rollback after a failed allocation forgets the
\* original length: the length becomes the growth obtained.
file_growth_forgets_origin(d, new_length, f, dk, w) ==
  LET origin_length == d.length
      last_sec == byte_to_sector(d, origin_length, f, w)
      g == GrowLoop(origin_length, new_length, 0, sector_to_cluster(last_sec), f, dk, w)
  IN IF last_sec = Fault
     THEN [ok |-> FALSE, length |-> origin_length, fat |-> f, disk |-> dk, fault |-> TRUE]
     ELSE IF \/ origin_length % DISK_SECTOR_SIZE = 0
             \/ new_length > origin_length - (origin_length % DISK_SECTOR_SIZE)
                               + DISK_SECTOR_SIZE
     THEN IF g.ok \/ g.fault THEN g ELSE [g EXCEPT !.length = @ - origin_length]
     ELSE [ok |-> TRUE, length |-> new_length, fat |-> f, disk |-> dk, fault |-> FALSE]

\* file_growth(inode, new_length) on the inode's data d: the result, the new
\* length, FAT and device, and whether the call faulted on the way.
file_growth(d, new_length, f, dk, w) ==
  LET origin_length == d.length
      last_sec == byte_to_sector(d, origin_length, f, w)
  IN IF last_sec = Fault
     THEN [ok |-> FALSE, length |-> origin_length, fat |-> f, disk |-> dk, fault |-> TRUE]
     ELSE IF \/ origin_length % DISK_SECTOR_SIZE = 0
             \/ new_length > origin_length - (origin_length % DISK_SECTOR_SIZE)
                               + DISK_SECTOR_SIZE
     THEN GrowLoop(origin_length, new_length, 0, sector_to_cluster(last_sec), f, dk, w)
     ELSE [ok |-> TRUE, length |-> new_length, fat |-> f, disk |-> dk, fault |-> FALSE]

(***************************************************************************)
(* The chunk loops of inode_write_at and inode_read_at                     *)
(***************************************************************************)
\* The while loop of inode_write_at.  mem: malloc of the bounce buffer
\* succeeds.  A device access outside the device panics.
RECURSIVE WriteLoop(_, _, _, _, _, _, _, _, _)
WriteLoop(d, f, dk, buffer, size, offset, bytes_written, mem, w) ==
  LET sector_idx == byte_to_sector(d, offset, f, w)
      sector_ofs == offset % DISK_SECTOR_SIZE
      inode_left == d.length - offset
      sector_left == DISK_SECTOR_SIZE - sector_ofs
      min_left == Min(inode_left, sector_left)
      chunk_size == Min(size, min_left)
      done == [disk |-> dk, ret |-> bytes_written, fault |-> FALSE, nomem |-> FALSE]
      fail == [disk |-> dk, ret |-> bytes_written, fault |-> TRUE, nomem |-> FALSE]
  IN IF size <= 0 THEN done
     ELSE IF sector_idx = Fault THEN fail
     ELSE IF chunk_size <= 0 THEN done
     ELSE IF sector_ofs = 0 /\ chunk_size = DISK_SECTOR_SIZE
     THEN IF sector_idx \notin Sector THEN fail
          ELSE WriteLoop(d, f,
                 [dk EXCEPT ![sector_idx] =
                    DataSector([i \in 1..DISK_SECTOR_SIZE |-> buffer[bytes_written + i]])],
                 buffer, size - chunk_size, offset + chunk_size,
                 bytes_written + chunk_size, mem, w)
     ELSE IF ~mem THEN [done EXCEPT !.nomem = TRUE]
     ELSE IF sector_idx \notin Sector THEN fail
     ELSE LET bounce == IF sector_ofs > 0 \/ chunk_size < sector_left
                        THEN SectorBytes(dk[sector_idx])
                        ELSE zeros
              copied == [i \in 1..DISK_SECTOR_SIZE |->
                           IF i > sector_ofs /\ i <= sector_ofs + chunk_size
                           THEN buffer[bytes_written + i - sector_ofs]
                           ELSE bounce[i]]
          IN WriteLoop(d, f, [dk EXCEPT ![sector_idx] = DataSector(copied)],
                       buffer, size - chunk_size, offset + chunk_size,
                       bytes_written + chunk_size, mem, w)

\* The while loop of inode_read_at; buffer is what has been copied out.
RECURSIVE ReadLoop(_, _, _, _, _, _, _, _)
ReadLoop(d, f, dk, buffer, size, offset, mem, w) ==
  LET sector_idx == byte_to_sector(d, offset, f, w)
      sector_ofs == offset % DISK_SECTOR_SIZE
      inode_left == d.length - offset
      sector_left == DISK_SECTOR_SIZE - sector_ofs
      min_left == Min(inode_left, sector_left)
      chunk_size == Min(size, min_left)
      done == [buf |-> buffer, ret |-> Len(buffer), fault |-> FALSE, nomem |-> FALSE]
      fail == [buf |-> buffer, ret |-> Len(buffer), fault |-> TRUE, nomem |-> FALSE]
  IN IF size <= 0 THEN done
     ELSE IF sector_idx = Fault THEN fail
     ELSE IF chunk_size <= 0 THEN done
     ELSE IF ~(sector_ofs = 0 /\ chunk_size = DISK_SECTOR_SIZE) /\ ~mem
     THEN [done EXCEPT !.nomem = TRUE]
     ELSE IF sector_idx \notin Sector THEN fail
     ELSE ReadLoop(d, f, dk,
                   buffer \o SubSeq(SectorBytes(dk[sector_idx]),
                                    sector_ofs + 1, sector_ofs + chunk_size),
                   size - chunk_size, offset + chunk_size, mem, w)

(***************************************************************************)
(* The calls                                                               *)
(***************************************************************************)
\* The inodes on the open_inodes list.
Live == {open_inodes[k] : k \in 1..Len(open_inodes)}

RemoveFromList(l, i) == SelectSeq(l, LAMBDA x : x # i)

\* The caller (the directory layer) allocates the sector of a new inode:
\* fat_create_chain(0).
AllocInodeSector(maxFiles) ==
  LET r == fat_create_chain(fat, 0, Fault) IN
  /\ ~panic
  /\ Cardinality(reserved \cup files) < maxFiles
  /\ r.new # 0
  /\ fat' = r.fat
  /\ reserved' = reserved \cup {cluster_to_sector(r.new)}
  /\ last' = Call("alloc", 0, 0, 0, cluster_to_sector(r.new), <<>>, <<>>)
  /\ UNCHANGED <<disk, inodes, open_inodes, files, panic>>

\* The while loop of inode_create: one cluster, zero-filled, per iteration.
RECURSIVE CreateLoop(_, _, _, _, _, _)
CreateLoop(length, startclst, first, start, f, dk) ==
  IF length >= 0
  THEN LET r == fat_create_chain(f, startclst, Fault) IN
       IF r.new = 0
       THEN [ok |-> FALSE, start |-> start, fat |-> r.fat, disk |-> dk]
       ELSE CreateLoop(length - DISK_SECTOR_SIZE, r.new, FALSE,
                       IF first THEN cluster_to_sector(r.new) ELSE start, r.fat,
                       [dk EXCEPT ![cluster_to_sector(r.new)] = DataSector(zeros)])
  ELSE [ok |-> TRUE, start |-> start, fat |-> f, disk |-> dk]

\* inode_create (sector, length).  mem: calloc succeeds.
inode_create(sector, length, mem) ==
  LET r == CreateLoop(length, 0, TRUE, 0, fat, disk) IN
  /\ ~panic
  /\ sector \in reserved
  /\ IF ~mem
     THEN /\ last' = Call("create", sector, 0, length, 0, <<>>, <<>>)
          /\ UNCHANGED <<fat, disk, reserved, files>>
     ELSE IF ~r.ok
     THEN /\ fat' = r.fat
          /\ disk' = r.disk
          /\ last' = Call("create", sector, 0, length, 0, <<>>, <<>>)
          /\ UNCHANGED <<reserved, files>>
     ELSE /\ fat' = r.fat
          /\ disk' = [r.disk EXCEPT ![sector] = InodeSector(inode_disk(r.start, length))]
          /\ reserved' = reserved \ {sector}
          /\ files' = files \cup {sector}
          /\ last' = Call("create", sector, 0, length, 1, <<>>, <<"disk_write">>)
  /\ UNCHANGED <<inodes, open_inodes, panic>>

\* The positions of open_inodes whose inode has this sector.
Found(sector) == {k \in 1..Len(open_inodes) : inodes[open_inodes[k]].sector = sector}

\* inode_open without the search of open_inodes: every call makes a new
\* in-memory inode.
inode_open_nolookup(sector, mem) ==
  /\ ~panic
  /\ sector \in files
  /\ disk[sector].k = "inode"
  /\ IF ~mem \/ InodeId \ Live = {}
     THEN /\ last' = Call("open", sector, 0, 0, 0, <<>>, <<>>)
          /\ UNCHANGED <<inodes, open_inodes>>
     ELSE LET i == SetMin(InodeId \ Live) IN
          /\ open_inodes' = <<i>> \o open_inodes
          /\ inodes' = [inodes EXCEPT ![i] =
                          [sector |-> sector, open_cnt |-> 1, removed |-> FALSE,
                           deny_write_cnt |-> 0, data |-> disk[sector].d]]
          /\ last' = Call("open", sector, 0, 0, i, <<>>, <<"malloc", "list_push_front", "disk_read">>)
  /\ UNCHANGED <<fat, disk, reserved, files, panic>>

\* inode_open (sector).  mem: malloc succeeds.
inode_open(sector, mem) ==
  /\ ~panic
  /\ sector \in files
  /\ disk[sector].k = "inode"
  /\ IF Found(sector) # {}
     THEN LET i == open_inodes[SetMin(Found(sector))] IN
          /\ inodes[i].open_cnt < MaxOpen
          /\ inodes' = [inodes EXCEPT ![i].open_cnt = @ + 1]
          /\ last' = Call("open", sector, 0, 0, i, <<>>, <<>>)
          /\ UNCHANGED open_inodes
     ELSE IF ~mem \/ InodeId \ Live = {}
     THEN /\ last' = Call("open", sector, 0, 0, 0, <<>>, <<>>)
          /\ UNCHANGED <<inodes, open_inodes>>
     ELSE LET i == SetMin(InodeId \ Live) IN
          /\ open_inodes' = <<i>> \o open_inodes
          /\ inodes' = [inodes EXCEPT ![i] =
                          [sector |-> sector, open_cnt |-> 1, removed |-> FALSE,
                           deny_write_cnt |-> 0, data |-> disk[sector].d]]
          /\ last' = Call("open", sector, 0, 0, i, <<>>, <<"malloc", "list_push_front", "disk_read">>)
  /\ UNCHANGED <<fat, disk, reserved, files, panic>>

\* inode_reopen (inode)
inode_reopen(i) ==
  /\ ~panic
  /\ i \in Live
  /\ inodes[i].open_cnt < MaxOpen
  /\ inodes' = [inodes EXCEPT ![i].open_cnt = @ + 1]
  /\ last' = Call("reopen", i, 0, 0, i, <<>>, <<>>)
  /\ UNCHANGED <<fat, disk, open_inodes, reserved, files, panic>>

\* inode_close releasing the data chain before the chain of the record's
\* sector.
inode_close_data_first(i) ==
  LET ino == inodes[i]
      f1 == fat_remove_chain(fat, sector_to_cluster(ino.data.start), NClusters)
      f2 == fat_remove_chain(f1, sector_to_cluster(ino.sector), NClusters)
  IN
  /\ ~panic
  /\ i \in Live
  /\ IF ino.open_cnt - 1 = 0
     THEN /\ open_inodes' = RemoveFromList(open_inodes, i)
          /\ disk' = [disk EXCEPT ![ino.sector] = InodeSector(ino.data)]
          /\ inodes' = [inodes EXCEPT ![i] = NoInode]
          /\ IF ino.removed
             THEN /\ fat' = f2
                  /\ files' = files \ {ino.sector}
                  /\ last' = Call("close", i, 0, 0, 0, <<>>,
                                  <<"list_remove", "disk_write", "fat_remove_chain_start",
                                    "fat_remove_chain_sector", "free">>)
             ELSE /\ last' = Call("close", i, 0, 0, 0, <<>>,
                                  <<"list_remove", "disk_write", "free">>)
                  /\ UNCHANGED <<fat, files>>
     ELSE /\ inodes' = [inodes EXCEPT ![i].open_cnt = @ - 1]
          /\ last' = Call("close", i, 0, 0, 0, <<>>, <<>>)
          /\ UNCHANGED <<fat, disk, open_inodes, files>>
  /\ UNCHANGED <<reserved, panic>>

\* inode_close without the disk_write of the inode_disk.
inode_close_noflush(i) ==
  LET ino == inodes[i]
      f1 == fat_remove_chain(fat, sector_to_cluster(ino.sector), NClusters)
      f2 == fat_remove_chain(f1, sector_to_cluster(ino.data.start), NClusters)
  IN
  /\ ~panic
  /\ i \in Live
  /\ IF ino.open_cnt - 1 = 0
     THEN /\ open_inodes' = RemoveFromList(open_inodes, i)
          /\ inodes' = [inodes EXCEPT ![i] = NoInode]
          /\ IF ino.removed
             THEN /\ fat' = f2
                  /\ files' = files \ {ino.sector}
                  /\ last' = Call("close", i, 0, 0, 0, <<>>,
                                  <<"list_remove", "fat_remove_chain_sector",
                                    "fat_remove_chain_start", "free">>)
             ELSE /\ last' = Call("close", i, 0, 0, 0, <<>>, <<"list_remove", "free">>)
                  /\ UNCHANGED <<fat, files>>
     ELSE /\ inodes' = [inodes EXCEPT ![i].open_cnt = @ - 1]
          /\ last' = Call("close", i, 0, 0, 0, <<>>, <<>>)
          /\ UNCHANGED <<fat, open_inodes, files>>
  /\ UNCHANGED <<disk, reserved, panic>>

\* inode_close (inode)
inode_close(i) ==
  LET ino == inodes[i]
      f1 == fat_remove_chain(fat, sector_to_cluster(ino.sector), NClusters)
      f2 == fat_remove_chain(f1, sector_to_cluster(ino.data.start), NClusters)
  IN
  /\ ~panic
  /\ i \in Live
  /\ IF ino.open_cnt - 1 = 0
     THEN /\ open_inodes' = RemoveFromList(open_inodes, i)
          /\ disk' = [disk EXCEPT ![ino.sector] = InodeSector(ino.data)]
          /\ inodes' = [inodes EXCEPT ![i] = NoInode]
          /\ IF ino.removed
             THEN /\ fat' = f2
                  /\ files' = files \ {ino.sector}
                  /\ last' = Call("close", i, 0, 0, 0, <<>>,
                                  <<"list_remove", "disk_write", "fat_remove_chain_sector",
                                    "fat_remove_chain_start", "free">>)
             ELSE /\ last' = Call("close", i, 0, 0, 0, <<>>,
                                  <<"list_remove", "disk_write", "free">>)
                  /\ UNCHANGED <<fat, files>>
     ELSE /\ inodes' = [inodes EXCEPT ![i].open_cnt = @ - 1]
          /\ last' = Call("close", i, 0, 0, 0, <<>>, <<>>)
          /\ UNCHANGED <<fat, disk, open_inodes, files>>
  /\ UNCHANGED <<reserved, panic>>

\* inode_close (NULL)
inode_close_null ==
  /\ ~panic
  /\ last' = Call("close", 0, 0, 0, 0, <<>>, <<>>)
  /\ UNCHANGED <<fat, disk, inodes, open_inodes, reserved, files, panic>>

\* inode_remove releasing the file's chains at once, while the inode is
\* still open.
inode_remove_eager(i) ==
  /\ ~panic
  /\ i \in Live
  /\ inodes' = [inodes EXCEPT ![i].removed = TRUE]
  /\ fat' = fat_remove_chain(fat_remove_chain(fat, sector_to_cluster(inodes[i].sector), NClusters),
                             sector_to_cluster(inodes[i].data.start), NClusters)
  /\ last' = Call("remove", i, 0, 0, 0, <<>>, <<>>)
  /\ UNCHANGED <<disk, open_inodes, reserved, files, panic>>

\* inode_remove (inode)
inode_remove(i) ==
  /\ ~panic
  /\ i \in Live
  /\ inodes' = [inodes EXCEPT ![i].removed = TRUE]
  /\ last' = Call("remove", i, 0, 0, 0, <<>>, <<>>)
  /\ UNCHANGED <<fat, disk, open_inodes, reserved, files, panic>>

\* inode_deny_write without its ASSERT.
inode_deny_write_unchecked(i) ==
  /\ ~panic
  /\ i \in Live
  /\ inodes' = [inodes EXCEPT ![i].deny_write_cnt = @ + 1]
  /\ last' = Call("deny_write", i, 0, 0, 0, <<>>, <<>>)
  /\ UNCHANGED <<fat, disk, open_inodes, reserved, files, panic>>

\* inode_deny_write (inode): the increment, then the ASSERT.
inode_deny_write(i) ==
  /\ ~panic
  /\ i \in Live
  /\ inodes' = [inodes EXCEPT ![i].deny_write_cnt = @ + 1]
  /\ panic' = ~(inodes[i].deny_write_cnt + 1 <= inodes[i].open_cnt)
  /\ last' = Call("deny_write", i, 0, 0, 0, <<>>, <<>>)
  /\ UNCHANGED <<fat, disk, open_inodes, reserved, files>>

\* inode_allow_write without its ASSERTs.
inode_allow_write_unchecked(i) ==
  /\ ~panic
  /\ i \in Live
  /\ inodes' = [inodes EXCEPT ![i].deny_write_cnt = @ - 1]
  /\ last' = Call("allow_write", i, 0, 0, 0, <<>>, <<>>)
  /\ UNCHANGED <<fat, disk, open_inodes, reserved, files, panic>>

\* inode_allow_write (inode): the two ASSERTs, then the decrement.
inode_allow_write(i) ==
  /\ ~panic
  /\ i \in Live
  /\ IF inodes[i].deny_write_cnt > 0 /\ inodes[i].deny_write_cnt <= inodes[i].open_cnt
     THEN /\ inodes' = [inodes EXCEPT ![i].deny_write_cnt = @ - 1]
          /\ UNCHANGED panic
     ELSE /\ panic' = TRUE
          /\ UNCHANGED inodes
  /\ last' = Call("allow_write", i, 0, 0, 0, <<>>, <<>>)
  /\ UNCHANGED <<fat, disk, open_inodes, reserved, files>>

\* inode_write_at without the test of deny_write_cnt.
WriteResult_nodeny(ino, f, dk, buffer, offset, mem, w) ==
  LET size == Len(buffer)
      d == ino.data
      grow == offset + size > d.length
      g == file_growth(d, offset + size, f, dk, w)
      d1 == IF grow THEN [d EXCEPT !.length = g.length] ELSE d
      f1 == IF grow THEN g.fat ELSE f
      dk1 == IF grow THEN g.disk ELSE dk
      r == WriteLoop(d1, f1, dk1, buffer, size, offset, 0, mem, w)
      gev == IF ~grow THEN <<>>
             ELSE IF g.ok THEN <<"file_growth_ok">> ELSE <<"file_growth_failed">>
  IN IF grow /\ g.fault
     THEN [data |-> d1, fat |-> f1, disk |-> dk1, ret |-> 0, fault |-> TRUE, ev |-> gev]
     ELSE [data |-> d1, fat |-> f1, disk |-> r.disk, ret |-> r.ret, fault |-> r.fault,
           ev |-> gev \o (IF r.nomem THEN <<"malloc_failed">> ELSE <<>>)]

\* What inode_write_at (inode, buffer, size, offset) does to the inode's
\* data d, the FAT and the device, and what it returns.
WriteResult(ino, f, dk, buffer, offset, mem, w) ==
  LET size == Len(buffer)
      d == ino.data
      grow == offset + size > d.length
      g == file_growth(d, offset + size, f, dk, w)
      d1 == IF grow THEN [d EXCEPT !.length = g.length] ELSE d
      f1 == IF grow THEN g.fat ELSE f
      dk1 == IF grow THEN g.disk ELSE dk
      r == WriteLoop(d1, f1, dk1, buffer, size, offset, 0, mem, w)
      gev == IF ~grow THEN <<>>
             ELSE IF g.ok THEN <<"file_growth_ok">> ELSE <<"file_growth_failed">>
  IN IF ino.deny_write_cnt # 0
     THEN [data |-> d, fat |-> f, disk |-> dk, ret |-> 0, fault |-> FALSE, ev |-> <<>>]
     ELSE IF grow /\ g.fault
     THEN [data |-> d1, fat |-> f1, disk |-> dk1, ret |-> 0, fault |-> TRUE, ev |-> gev]
     ELSE [data |-> d1, fat |-> f1, disk |-> r.disk, ret |-> r.ret, fault |-> r.fault,
           ev |-> gev \o (IF r.nomem THEN <<"malloc_failed">> ELSE <<>>)]

\* inode_write_at (inode, buffer, size, offset), size = Len(buffer), with
\* outcome r.  A call that faults panics the kernel and never returns.
WriteApply(i, buffer, offset, r) ==
  /\ ~panic
  /\ i \in Live
  /\ IF r.fault
     THEN /\ panic' = TRUE
          /\ last' = Call("write", i, offset, Len(buffer), 0, buffer, <<"panic">>)
          /\ UNCHANGED <<fat, disk, inodes>>
     ELSE /\ fat' = r.fat
          /\ disk' = r.disk
          /\ inodes' = [inodes EXCEPT ![i].data = r.data]
          /\ last' = Call("write", i, offset, Len(buffer), r.ret, buffer, r.ev)
          /\ UNCHANGED panic
  /\ UNCHANGED <<open_inodes, reserved, files>>

inode_write_at(i, buffer, offset, mem, w) ==
  WriteApply(i, buffer, offset, WriteResult(inodes[i], fat, disk, buffer, offset, mem, w))

\* inode_read_at (inode, buffer, size, offset) with outcome r.
ReadApply(i, size, offset, r) ==
  /\ ~panic
  /\ i \in Live
  /\ panic' = r.fault
  /\ last' = IF r.fault THEN Call("read", i, offset, size, 0, <<>>, <<"panic">>)
             ELSE Call("read", i, offset, size, r.ret, r.buf,
                       IF r.nomem THEN <<"malloc_failed">> ELSE <<>>)
  /\ UNCHANGED <<fat, disk, inodes, open_inodes, reserved, files>>

inode_read_at(i, size, offset, mem, w) ==
  ReadApply(i, size, offset, ReadLoop(inodes[i].data, fat, disk, <<>>, size, offset, mem, w))

\* Byte values the callers write.
MaxByte == 1
DataBytes == 1..MaxByte

\* A caller reads, with a size and an offset from the given sets.  A call
\* that does not fault when no out-of-table access is answered made no
\* such access: only otherwise does what the access produces matter.
Read(sizes, offsets, mems) ==
  \E i \in Live, size \in sizes, offset \in offsets, mem \in mems :
    LET r == ReadLoop(inodes[i].data, fat, disk, <<>>, size, offset, mem, Fault) IN
    IF ~r.fault THEN ReadApply(i, size, offset, r)
    ELSE \E w \in Wild : inode_read_at(i, size, offset, mem, w)

\* A caller writes a buffer of the given bytes.
Write(sizes, offsets, bytes, mems) ==
  \E i \in Live, size \in sizes, offset \in offsets, mem \in mems :
    \E buffer \in [1..size -> bytes] :
      LET r == WriteResult(inodes[i], fat, disk, buffer, offset, mem, Fault) IN
      IF ~r.fault THEN WriteApply(i, buffer, offset, r)
      ELSE \E w \in Wild : inode_write_at(i, buffer, offset, mem, w)

\* A caller creates an inode in a sector it reserved.
Create(lengths, mems) ==
  \E sector \in reserved, length \in lengths, mem \in mems :
    inode_create(sector, length, mem)

(***************************************************************************)
(* Spec: every call of the interface, on up to MaxFiles files, with one-   *)
(* byte transfers.                                                         *)
(***************************************************************************)
Next ==
  \/ AllocInodeSector(MaxFiles)
  \/ Create({0}, BOOLEAN)
  \/ \E sector \in files, mem \in BOOLEAN : inode_open(sector, mem)
  \/ \E i \in Live : inode_reopen(i)
  \/ \E i \in Live : inode_close(i)
  \/ inode_close_null
  \/ \E i \in Live : inode_remove(i)
  \/ \E i \in Live : inode_deny_write(i)
  \/ \E i \in Live : inode_allow_write(i)
  \/ Read({1}, {0}, BOOLEAN)
  \/ Write({1}, {0}, DataBytes, BOOLEAN)

Spec == Init /\ [][Next]_vars

(***************************************************************************)
(* SpecData: the data path of one file through one handle, with memory     *)
(* available: create, open, write and close, with every length, size and   *)
(* offset in the bounds.  It starts on a device that other files have      *)
(* used: some clusters are theirs, and every sector holds stale bytes.     *)
(***************************************************************************)
StaleByte == MaxByte + 1
stale == [i \in 1..DISK_SECTOR_SIZE |-> StaleByte]

InitData ==
  /\ \E used \in 0..(NClusters - 2) :
       fat = [c \in Cluster |-> IF c <= used THEN EOChain ELSE 0]
  /\ disk = [s \in Sector |-> DataSector(stale)]
  /\ inodes = [i \in InodeId |-> NoInode]
  /\ open_inodes = <<>>
  /\ reserved = {}
  /\ files = {}
  /\ panic = FALSE
  /\ last = Call("init", 0, 0, 0, 0, <<>>, <<>>)

NextData ==
  \/ AllocInodeSector(1)
  \/ Create(0..MaxCreateLen, {TRUE})
  \/ \E sector \in files : Found(sector) = {} /\ inode_open(sector, TRUE)
  \/ \E i \in Live : inode_close(i)
  \/ Write(0..MaxSize, 0..MaxOffset, DataBytes, {TRUE})

SpecData == InitData /\ [][NextData]_vars

(***************************************************************************)
(* SpecRT: one file is created with a length, opened, written from offset  *)
(* 0 with a buffer of that length, and read back.                          *)
(***************************************************************************)
RTLens == 0..(2 * DISK_SECTOR_SIZE + 1)
RTBytes == 1..(MaxByte + 1)

NextRT ==
  \/ last.op = "init" /\ AllocInodeSector(1)
  \/ last.op = "alloc" /\ Create(RTLens, BOOLEAN)
  \/ /\ last.op = "create"
     /\ \E sector \in files, mem \in BOOLEAN : inode_open(sector, mem)
  \/ /\ last.op = "open"
     /\ Write(RTLens, {0}, RTBytes, BOOLEAN)
     /\ last'.size = inodes[last'.h].data.length
  \/ /\ last.op = "write"
     /\ Read(RTLens, {0}, BOOLEAN)
     /\ last'.size = last.size

SpecRT == InitData /\ [][NextRT]_vars

(***************************************************************************)
(* One file on an empty device, from its creation to its removal: every    *)
(* cluster in use is in use on behalf of the file.                         *)
(***************************************************************************)
NextDel ==
  \/ last.op = "init" /\ AllocInodeSector(1)
  \/ Create(0..MaxCreateLen, {TRUE})
  \/ \E sector \in files : Found(sector) = {} /\ inode_open(sector, TRUE)
  \/ \E i \in Live : inode_remove(i)
  \/ \E i \in Live : inode_close(i)
  \/ Write(0..MaxSize, 0..MaxOffset, DataBytes, {TRUE})

SpecDel == Init /\ [][NextDel]_vars

(***************************************************************************)
(* Two files of one byte on an empty device, each opened once and written. *)
(***************************************************************************)
NextIso ==
  \/ AllocInodeSector(MaxFiles)
  \/ Cardinality(reserved \cup files) = MaxFiles /\ Create({1}, {TRUE})
  \/ \E sector \in files :
       reserved = {} /\ Found(sector) = {} /\ inode_open(sector, TRUE)
  \/ Len(open_inodes) = MaxFiles /\ Write({1}, 0..MaxOffset, DataBytes, {TRUE})

SpecIso == Init /\ [][NextIso]_vars

(***************************************************************************)
(* Properties                                                              *)
(***************************************************************************)
Range(seq) == {seq[k] : k \in 1..Len(seq)}

\* The clusters of the data chain of an inode, and the bytes they hold.
ChainOf(d, f) == Chain(f, sector_to_cluster(d.start), NClusters)
Storage(d, f) == Len(ChainOf(d, f)) * SECTORS_PER_CLUSTER * DISK_SECTOR_SIZE

\* C1: growth atomicity under exhaustion.  When the growth a write
\* triggered failed because the allocator ran out, the length left in the
\* inode is at most the storage of the inode's chain.
C1_GrowthAtomicity ==
  (last.op = "write" /\ "file_growth_failed" \in Range(last.ev))
    => inodes[last.h].data.length <= Storage(inodes[last.h].data, fat)

\* C2: in every state, every offset below the length of an open inode
\* translates to a sector of a cluster of the inode's chain.
C2_LengthBacked ==
  ~panic =>
    \A i \in Live :
      \A pos \in 0..(inodes[i].data.length - 1) :
        byte_to_sector(inodes[i].data, pos, fat, Fault)
          \in {cluster_to_sector(c) : c \in Range(ChainOf(inodes[i].data, fat))}

CountersOk(ino) ==
  /\ ino.open_cnt >= 1
  /\ 0 <= ino.deny_write_cnt
  /\ ino.deny_write_cnt <= ino.open_cnt

Released == {c \in Cluster : fat[c] # 0 /\ fat'[c] = 0}

\* C4: deferred delete.  inode_remove changes nothing but the flag; a write
\* through a removed inode does what it does through the same inode not
\* removed; clusters are released only by the close that takes open_cnt
\* from 1 to 0 on a removed inode, and that close releases the data chain
\* and the inode's own cluster.
C4_DeferredDelete ==
  [][/\ Released # {} =>
          /\ last'.op = "close"
          /\ last'.h \in Live
          /\ inodes[last'.h].open_cnt = 1
          /\ inodes[last'.h].removed
     /\ (/\ last'.op = "close"
         /\ last'.h \in Live
         /\ inodes[last'.h].open_cnt = 1
         /\ inodes[last'.h].removed)
          => Released = Range(ChainOf(inodes[last'.h].data, fat))
                          \cup {sector_to_cluster(inodes[last'.h].sector)}
     /\ last'.op = "remove" =>
          /\ inodes' = [inodes EXCEPT ![last'.h].removed = TRUE]
          /\ UNCHANGED <<fat, disk, open_inodes>>
     /\ \A i \in Live, mem \in BOOLEAN, buffer \in [1..1 -> DataBytes] :
          inodes[i].removed =>
            WriteResult(inodes[i], fat, disk, buffer, 0, mem, Fault)
              = WriteResult([inodes[i] EXCEPT !.removed = FALSE], fat, disk,
                            buffer, 0, mem, Fault)]_vars

\* The last close of a removed inode that had been written: its clusters
\* are free again.
C4_Witness ==
  /\ last.op = "close"
  /\ "fat_remove_chain_start" \in Range(last.ev)
  /\ \E s \in Sector :
       /\ disk[s].k = "inode"
       /\ disk[s].d.length > 0
       /\ fat[sector_to_cluster(s)] = 0
       /\ fat[sector_to_cluster(disk[s].d.start)] = 0

\* No two inodes on the list have the same sector.
Unique ==
  \A k1, k2 \in 1..Len(open_inodes) :
    k1 # k2 => inodes[open_inodes[k1]].sector # inodes[open_inodes[k2]].sector

\* C5: the list never holds two inodes of one sector.  inode_open of a
\* listed sector returns the listed inode with open_cnt one higher and
\* reads nothing from the device; inode_open of a sector not listed lists
\* a new inode with open_cnt 1, deny_write_cnt 0, not removed, and the
\* inode_disk read from the sector.
C5_OpenDedup ==
  [][/\ Unique'
     /\ (last'.op = "open" /\ last'.ret # 0) =>
          LET s == last'.h
              i == last'.ret
          IN IF \E j \in Live : inodes[j].sector = s
             THEN /\ i \in Live
                  /\ inodes[i].sector = s
                  /\ inodes' = [inodes EXCEPT ![i].open_cnt = @ + 1]
                  /\ open_inodes' = open_inodes
                  /\ "disk_read" \notin Range(last'.ev)
             ELSE /\ i \notin Live
                  /\ i \in Live'
                  /\ inodes'[i] = [sector |-> s, open_cnt |-> 1, removed |-> FALSE,
                                   deny_write_cnt |-> 0, data |-> disk[s].d]
                  /\ "disk_read" \in Range(last'.ev)]_vars

\* Two inodes are open and the one just opened was open already.
C5_Witness ==
  /\ last.op = "open"
  /\ last.ret # 0
  /\ Len(open_inodes) = 2
  /\ inodes[last.ret].open_cnt = 2

\* C6: while deny_write_cnt > 0 a write returns 0 and changes neither the
\* device, the inode nor the FAT; with deny_write_cnt back at 0 a write
\* whose growth and bounce buffer did not fail writes all its bytes.
C6_DenyWrite ==
  [][last'.op = "write" =>
       IF inodes[last'.h].deny_write_cnt > 0
       THEN /\ last'.ret = 0
            /\ ~panic'
            /\ UNCHANGED <<fat, disk, inodes, open_inodes>>
       ELSE (/\ ~panic'
             /\ "malloc_failed" \notin Range(last'.ev)
             /\ "file_growth_failed" \notin Range(last'.ev))
              => last'.ret = last'.size]_vars

\* A write that would have grown the file was refused.
C6_Witness ==
  /\ last.op = "write"
  /\ last.h \in Live
  /\ inodes[last.h].deny_write_cnt > 0
  /\ last.size > 0
  /\ last.ret = 0
  /\ inodes[last.h].data.length < last.off + last.size

\* C7 as claimed: the last close of a removed inode unlists it, writes the
\* inode_disk, releases the data chain, then the inode's own sector, then
\* frees the inode.
C7_CloseOrder ==
  (last.op = "close" /\ "fat_remove_chain_start" \in Range(last.ev))
    => last.ev = <<"list_remove", "disk_write", "fat_remove_chain_start",
                   "fat_remove_chain_sector", "free">>

\* C7 as amended: the last close of a removed inode unlists it, writes the
\* inode_disk, releases the inode's own sector, then the data chain, then
\* frees the inode.
C7_CloseOrderAmended ==
  [][(/\ last'.op = "close"
      /\ last'.h \in Live
      /\ inodes[last'.h].open_cnt = 1
      /\ inodes[last'.h].removed)
       => /\ last'.ev = <<"list_remove", "disk_write", "fat_remove_chain_sector",
                          "fat_remove_chain_start", "free">>
          /\ last'.h \notin Live'
          /\ disk'[inodes[last'.h].sector] = InodeSector(inodes[last'.h].data)
          /\ fat'[sector_to_cluster(inodes[last'.h].sector)] = 0
          /\ fat'[sector_to_cluster(inodes[last'.h].data.start)] = 0]_vars

\* The last close of a removed inode has happened.
C7_Witness ==
  /\ last.op = "close"
  /\ Len(last.ev) = 5
  /\ open_inodes = <<>>

C9_FullWrite ==
  [][(/\ last'.op = "write"
      /\ inodes[last'.h].deny_write_cnt = 0
      /\ "malloc_failed" \notin Range(last'.ev)
      /\ \/ last'.off + last'.size <= inodes[last'.h].data.length
         \/ "file_growth_ok" \in Range(last'.ev))
       => /\ ~panic'
          /\ last'.ret = last'.size
          /\ inodes'[last'.h].data.length >= last'.off + last'.size]_vars

\* What inode_read_at returns for the byte at pos (Fault when it does not
\* return one byte).
ReadByte(d, f, dk, pos) ==
  LET r == ReadLoop(d, f, dk, <<>>, 1, pos, TRUE, Fault)
  IN IF r.fault \/ r.ret # 1 THEN Fault ELSE r.buf[1]

C11_LengthMonotonic ==
  [][/\ (last'.op = "write" /\ ~panic')
          => inodes'[last'.h].data.length >= inodes[last'.h].data.length
     /\ \A i \in Live, offset \in 0..MaxOffset, buffer \in [1..1 -> DataBytes] :
          WriteResult([inodes[i] EXCEPT !.deny_write_cnt = 1], fat, disk, buffer,
                      offset, TRUE, Fault).data.length = inodes[i].data.length]_vars

\* A write whose growth failed after it had obtained a cluster: the file
\* is longer than before the call.
C11_Witness ==
  /\ last.op = "write"
  /\ ~panic
  /\ "file_growth_failed" \in Range(last.ev)
  /\ last.ret > 0
  /\ inodes[last.h].data.length > DISK_SECTOR_SIZE

\* C12: the length is persisted at the final close.  The close that takes
\* open_cnt of an inode not removed to 0 leaves in the inode's sector an
\* inode_disk with the inode's length and start, and changes neither the
\* FAT nor what a read of any offset below the length returns; no other
\* call changes the sector of a file that is not open; and inode_open of a
\* sector not listed takes the length and start found in the sector.
C12_LengthPersisted ==
  [][/\ (/\ last'.op = "close"
         /\ last'.h \in Live
         /\ inodes[last'.h].open_cnt = 1
         /\ ~inodes[last'.h].removed)
          => LET ino == inodes[last'.h] IN
             /\ disk'[ino.sector].k = "inode"
             /\ disk'[ino.sector].d.length = ino.data.length
             /\ disk'[ino.sector].d.start = ino.data.start
             /\ fat' = fat
             /\ ino.sector \in files'
             /\ \A pos \in 0..(ino.data.length - 1) :
                  ReadByte(disk'[ino.sector].d, fat', disk', pos)
                    = ReadByte(ino.data, fat, disk, pos)
     /\ \A s \in files : Found(s) = {} => disk'[s] = disk[s]
     /\ (last'.op = "open" /\ last'.ret # 0 /\ last'.ret \notin Live)
          => /\ inodes'[last'.ret].data.length = disk[last'.h].d.length
             /\ inodes'[last'.ret].data.start = disk[last'.h].d.start]_vars

\* A file that writes made longer than it was created has been closed and
\* opened again.
C12_Witness ==
  /\ last.op = "open"
  /\ last.ret # 0
  /\ inodes[last.ret].data.length > MaxCreateLen
  /\ inodes[last.ret].data.length = disk[last.h].d.length

\* C13: a failed create leaves no file.  When inode_create returns false
\* the sector given for the inode has not been written and every cluster
\* the call obtained is free again: the FAT is as it was before the call.
C13_FailedCreateLeavesNothing ==
  [][(last'.op = "create" /\ last'.ret = 0)
       => /\ disk'[last'.h] = disk[last'.h]
          /\ last'.h \notin files'
          /\ fat' = fat]_vars

\* C14: after remove and the final close of the only file of the device,
\* whatever writes extended it, every cluster is free again.
C14_AllReleased ==
  (/\ last.op = "close"
   /\ "fat_remove_chain_start" \in Range(last.ev)
   /\ files = {}
   /\ reserved = {})
    => \A c \in Cluster : fat[c] = 0

\* The byte of a file at pos: the byte at pos % DISK_SECTOR_SIZE of the
\* sector of cluster number pos \div DISK_SECTOR_SIZE of its chain (Fault
\* when the chain has no such cluster).
FileByte(d, f, dk, pos) ==
  LET chain == ChainOf(d, f)
      n == pos \div (DISK_SECTOR_SIZE * SECTORS_PER_CLUSTER)
  IN IF n + 1 > Len(chain) THEN Fault
     ELSE SectorBytes(dk[cluster_to_sector(chain[n + 1])])[(pos % DISK_SECTOR_SIZE) + 1]

\* C15: in every state, a read of size bytes at offset through an open
\* inode, its bounce buffer allocated, returns min(size, max(0, length -
\* offset)) bytes, and they are the bytes of the file from offset on.
C15_ReadBounds ==
  ~panic =>
    \A i \in Live, size \in 0..MaxSize, offset \in 0..MaxOffset :
      LET d == inodes[i].data
          r == ReadLoop(d, fat, disk, <<>>, size, offset, TRUE, Fault)
          left == IF d.length - offset > 0 THEN d.length - offset ELSE 0
          n == Min(size, left)
      IN /\ ~r.fault
         /\ r.ret = n
         /\ Len(r.buf) = n
         /\ \A k \in 1..n : r.buf[k] = FileByte(d, fat, disk, offset + k - 1)

\* C16: misuse of the write-denial counter is fatal.  inode_allow_write on
\* an inode with deny_write_cnt = 0 panics; inode_deny_write that takes
\* deny_write_cnt above open_cnt panics; and a call of either that returns
\* leaves 0 <= deny_write_cnt <= open_cnt.
C16_MisuseIsFatal ==
  [][/\ (last'.op = "allow_write" /\ inodes[last'.h].deny_write_cnt = 0) => panic'
     /\ (/\ last'.op = "deny_write"
         /\ inodes[last'.h].deny_write_cnt + 1 > inodes[last'.h].open_cnt) => panic'
     /\ (last'.op \in {"allow_write", "deny_write"} /\ ~panic')
          => /\ 0 <= inodes'[last'.h].deny_write_cnt
             /\ inodes'[last'.h].deny_write_cnt <= inodes'[last'.h].open_cnt]_vars

\* inode_allow_write was called with no denial outstanding, and the kernel
\* panicked.
C16_Witness ==
  /\ panic
  /\ last.op = "allow_write"
  /\ inodes[last.h].deny_write_cnt = 0
  /\ inodes[last.h].open_cnt >= 1

\* C17: growth extends the chain from its tail.  At every write that
\* invokes file_growth (it is not denied and ends beyond the length), the
\* offset equal to the length translates to the sector of the last cluster
\* of the inode's chain.
C17_GrowthFromTail ==
  [][(/\ last'.op = "write"
      /\ inodes[last'.h].deny_write_cnt = 0
      /\ last'.off + last'.size > inodes[last'.h].data.length)
       => LET d == inodes[last'.h].data
              chain == ChainOf(d, fat)
          IN /\ chain # <<>>
             /\ byte_to_sector(d, d.length, fat, Fault)
                  = cluster_to_sector(chain[Len(chain)])]_vars

C19_NoLongerThanAsked ==
  [][(last'.op = "write" /\ ~panic')
       => \/ inodes'[last'.h].data.length <= inodes[last'.h].data.length
          \/ inodes'[last'.h].data.length <= last'.off + last'.size]_vars

====
